---- MODULE Spec2Model ----
(***************************************************************************)
(* Content-generation orchestration and usage-accounting engine of         *)
(* 21SIXTY-Content (src/backend): the relational store behind              *)
(* database/repository.py, the Usage Ledger, the Prompt Template Store and *)
(* the generate-content request of main.py.                                *)
(*                                                                         *)
(* The store is a keyed-record store with transactions.  Every request     *)
(* owns one AsyncSession (main.py get_db): a flush sends the pending rows  *)
(* into the session's open transaction, a commit publishes them, closing   *)
(* the session without a commit rolls them back.  A session reads the      *)
(* committed rows plus its own pending rows (read committed); a write to   *)
(* a row or unique key that another open transaction has written waits     *)
(* for that transaction to end.                                            *)
(***************************************************************************)
EXTENDS Integers, Sequences, FiniteSets, TLC

(***************************************************************************)
(* Bounds of the model.                                                    *)
(***************************************************************************)
MaxSessions == 2
MaxCalls == 3
MaxOps == 4
MaxJobs == 2
MaxTokens == 2
MaxClock == 3
InstantsPerDay == 2

VARIABLES
    db,         \* committed tables
    tx,         \* per session: rows and updates flushed but not committed
    sess,       \* per session: the running operation, its position and locals
    now,        \* the clock read by datetime.utcnow()
    calls,      \* number of operations begun so far
    startup,    \* outcome of the seeding step of the last startup
    hist,       \* history: ended ledger calls, ended template operations,
                \* names that ever had a committed active template
    client,     \* the running call of OpenAIService.generate_text_with_tokens
    text        \* a provider text and what the content parsers made of it

vars == <<db, tx, sess, now, calls, startup, hist, client, text>>

Sess == 1..MaxSessions
\* the session ids requests arrive with; the k-th request carries one of
\* the first k of them
SessionIds == <<"job-a", "job-b">>
RequestIds == {SessionIds[i] : i \in 1..(IF calls + 1 < Len(SessionIds) THEN calls + 1
                                          ELSE Len(SessionIds))}
NoRow == [none |-> TRUE]
NoId == <<0, 0>>

(***************************************************************************)
(* Tables (database/models.py).                                            *)
(***************************************************************************)
EmptyTables ==
    [sessions |-> {}, prompt_templates |-> {}, prompt_usage |-> {},
     token_usage |-> {}, usage_summary |-> {}, generated_content |-> {},
     guests |-> {}]

EmptyTx == [ins |-> EmptyTables, upd_summary |-> {}, deact |-> {}]

TokenUsage(id, session_id, prompt_usage_id, template_id, total_tokens, model, at) ==
    [id |-> id, session_id |-> session_id, prompt_usage_id |-> prompt_usage_id,
     prompt_template_id |-> template_id, total_tokens |-> total_tokens,
     model |-> model, generated_at |-> at]

PromptTemplate(id, name, template, version, is_active) ==
    [id |-> id, name |-> name, template |-> template, version |-> version,
     is_active |-> is_active]

PromptUsage(id, session_id, template_id, prompt_text, at) ==
    [id |-> id, session_id |-> session_id, prompt_template_id |-> template_id,
     prompt_text_used |-> prompt_text, generated_at |-> at]

UsageSummary(date, total_tokens, request_count) ==
    [date |-> date, total_tokens |-> total_tokens, request_count |-> request_count]

(***************************************************************************)
(* What session s reads: committed rows, overlaid by its own pending       *)
(* updates, plus its own pending inserts.                                  *)
(***************************************************************************)
SummaryView(s) ==
    {r \in db.usage_summary : \A u \in tx[s].upd_summary : u.date # r.date}
        \cup tx[s].upd_summary \cup tx[s].ins.usage_summary

TemplateView(s) ==
    {IF r.id \in tx[s].deact THEN [r EXCEPT !.is_active = FALSE] ELSE r :
        r \in db.prompt_templates} \cup tx[s].ins.prompt_templates

PromptUsageView(s) == db.prompt_usage \cup tx[s].ins.prompt_usage

TokenUsageView(s) == db.token_usage \cup tx[s].ins.token_usage

SessionView(s) == db.sessions \cup tx[s].ins.sessions

\* AsyncSession.commit: publish the transaction of s
Committed(s) ==
    [sessions |-> SessionView(s),
     prompt_templates |-> TemplateView(s),
     prompt_usage |-> PromptUsageView(s),
     token_usage |-> TokenUsageView(s),
     usage_summary |-> SummaryView(s),
     generated_content |-> db.generated_content \cup tx[s].ins.generated_content,
     guests |-> db.guests \cup tx[s].ins.guests]

DateOf(t) == t \div InstantsPerDay

RECURSIVE SumTokens(_)
SumTokens(rows) ==
    IF rows = {} THEN 0
    ELSE LET r == CHOOSE x \in rows : TRUE
         IN  r.total_tokens + SumTokens(rows \ {r})

Active == {s \in Sess : sess[s].pc \notin {"idle", "closed"}}

\* get_db opens a new AsyncSession for every request: the request takes
\* the first session that is not in use
Free(s) == s \notin Active /\ \A t \in Sess : t < s => t \in Active

\* no call of the completion client is running
IdleClient == [pc |-> "idle"]

\* no provider text is being parsed
NoText == [pc |-> "idle"]

IdleSession ==
    [op |-> "none", pc |-> "idle", job |-> 0, sid |-> "", ct |-> 0, pu |-> NoId, tu |-> NoId,
     tokens |-> 0, today |-> 0, summ |-> NoRow, n |-> 0, err |-> "",
     name |-> "", body |-> "", old |-> NoRow, maxv |-> 0, seen |-> {}, had |-> FALSE,
     tmpl |-> NoRow, prompt |-> <<>>, res |-> NoRow]

\* a fresh primary key for a row inserted by session s: the number of its
\* operation and the number of the row within it
NewId(s) == <<sess[s].job, sess[s].n + 1>>

\* the session of s after its request has ended
Closed(s, e) == [IdleSession EXCEPT !.op = sess[s].op, !.pc = "closed", !.err = e]

Init ==
    /\ db = EmptyTables
    /\ tx = [s \in Sess |-> EmptyTx]
    /\ sess = [s \in Sess |-> IdleSession]
    /\ now = 0
    /\ calls = 0
    /\ startup = [runs |-> 0, err |-> ""]
    /\ hist = [ledger |-> {}, ops |-> <<>>, everActive |-> {}]
    /\ client = IdleClient
    /\ text = NoText

(***************************************************************************)
(* Ending a request.  A handler that raises never reaches its commit; the  *)
(* session is closed by get_db and the open transaction is rolled back.    *)
(***************************************************************************)
LogEntry(s, ok) ==
    IF sess[s].op = "record"
    THEN {[id |-> sess[s].tu, date |-> sess[s].today, tokens |-> sess[s].tokens, ok |-> ok]}
    ELSE {}

\* the request ends with what it has written published
Raise_Published(s, e) ==
    /\ sess' = [sess EXCEPT ![s] = Closed(s, e)]
    /\ tx' = [tx EXCEPT ![s] = EmptyTx]
    /\ db' = Committed(s)
    /\ hist' = [hist EXCEPT !.ledger = @ \cup LogEntry(s, FALSE)]
    /\ UNCHANGED <<client, text, now, calls, startup>>

\* get_db (main.py lines 74-77) leaves the session without a commit
Raise(s, e) ==
    /\ sess' = [sess EXCEPT ![s] = Closed(s, e)]
    /\ tx' = [tx EXCEPT ![s] = EmptyTx]
    /\ hist' = [hist EXCEPT !.ledger = @ \cup LogEntry(s, FALSE)]
    /\ UNCHANGED <<client, text, db, now, calls, startup>>


ActiveNames(table) == {r.name : r \in {x \in table : x.is_active}}

OpEntry(s) ==
    IF sess[s].op \in {"create", "replace"}
    THEN <<[op |-> sess[s].op, name |-> sess[s].name, body |-> sess[s].body]>>
    ELSE <<>>

\* Repository.commit followed by the end of the request
Commit(s) ==
    /\ sess[s].pc = "returned"
    /\ db' = Committed(s)
    /\ tx' = [tx EXCEPT ![s] = EmptyTx]
    /\ sess' = [sess EXCEPT ![s] = Closed(s, "")]
    /\ hist' = [hist EXCEPT !.ledger = @ \cup LogEntry(s, TRUE),
                            !.ops = @ \o OpEntry(s),
                            !.everActive = @ \cup ActiveNames(Committed(s).prompt_templates)]
    /\ UNCHANGED <<client, text, now, calls, startup>>

(***************************************************************************)
(* Usage Ledger: Repository.save_token_usage, one step per await.          *)
(***************************************************************************)
\* the eight content types, in the order of content_generator.py lines
\* 48-65; DEFAULT_PROMPTS of seed.py has one entry for each
ContentTypes ==
    <<"youtube_summary", "blog_post", "clickbait_titles", "two_line_summary",
      "quotes", "chapter_timestamps", "linkedin_post", "keywords">>

\* the loop left before its last content type
AfterTokenUsage_Early(r) ==
    IF r.op = "job"
    THEN IF r.ct < Len(ContentTypes) - 1
         THEN [r EXCEPT !.pc = "lookup", !.ct = @ + 1]
         ELSE [r EXCEPT !.pc = "save_content"]
    ELSE [r EXCEPT !.pc = "returned"]

\* where the operation r goes on after save_token_usage has returned: the
\* loop of generate_all_content_with_db (lines 67-76) takes the next
\* content type or leaves for save_generated_content (line 82)
AfterTokenUsage(r) ==
    IF r.op = "job"
    THEN IF r.ct < Len(ContentTypes)
         THEN [r EXCEPT !.pc = "lookup", !.ct = @ + 1]
         ELSE [r EXCEPT !.pc = "save_content"]
    ELSE [r EXCEPT !.pc = "returned"]

\* lines 189 and 207: template_id = 0 without a template, else template.id
TemplateId(template) == IF template = NoRow THEN NoId ELSE template.id

\* the reference left unset
UsageRef_Unset(r) == NoId

\* line 226: prompt_usage_id = prompt_usage.id
UsageRef(r) == r.pu

\* lines 272-283: add the TokenUsage row and flush; generated_at is the
\* column default datetime.utcnow, evaluated when the INSERT is issued
SaveTokenUsage(s) ==
    /\ sess[s].pc = "save_token"
    /\ LET id == NewId(s)
           row == TokenUsage(id, sess[s].sid, UsageRef(sess[s]), TemplateId(sess[s].tmpl),
                             sess[s].tokens, "primary", now)
       IN  /\ tx' = [tx EXCEPT ![s].ins.token_usage = @ \cup {row}]
           /\ sess' = [sess EXCEPT ![s].pc = "read_summary", ![s].tu = id, ![s].n = @ + 1]
    /\ UNCHANGED <<client, text, db, now, calls, startup, hist>>

\* lines 286 and 341-343: today is a second reading of the clock; then
\* the summary row of today is selected
ReadUsageSummary(s) ==
    /\ sess[s].pc = "read_summary"
    /\ LET today == DateOf(now)
           found == {r \in SummaryView(s) : r.date = today}
       IN  sess' = [sess EXCEPT ![s].pc = "write_summary", ![s].today = today,
                                ![s].summ = IF found = {} THEN NoRow
                                            ELSE CHOOSE r \in found : TRUE]
    /\ UNCHANGED <<client, text, db, tx, now, calls, startup, hist>>

\* another open transaction has written the summary row or key of date
SummaryLocked(s, date) ==
    \E t \in Sess \ {s} :
        \E r \in tx[t].ins.usage_summary \cup tx[t].upd_summary : r.date = date

\* lines 345-349: summary.total_tokens += tokens, summary.request_count += 1
IncrementSummary(summary, tokens) ==
    UsageSummary(summary.date, summary.total_tokens + tokens, summary.request_count + 1)

\* lines 345-359: increment the row that was read, or insert a new one,
\* and flush; usage_summary.date is unique (models.py line 185)
WriteUsageSummary(s) ==
    /\ sess[s].pc = "write_summary"
    /\ ~SummaryLocked(s, sess[s].today)
    /\ LET date == sess[s].today
           old == sess[s].summ
       IN  IF old # NoRow
           THEN LET new == IncrementSummary(old, sess[s].tokens)
                IN  /\ tx' = IF old \in tx[s].ins.usage_summary
                             THEN [tx EXCEPT ![s].ins.usage_summary = (@ \ {old}) \cup {new}]
                             ELSE [tx EXCEPT ![s].upd_summary =
                                       {u \in @ : u.date # date} \cup {new}]
                    /\ sess' = [sess EXCEPT ![s] = AfterTokenUsage(sess[s])]
                    /\ UNCHANGED <<client, text, db, now, calls, startup, hist>>
           ELSE IF \E r \in db.usage_summary : r.date = date
                THEN Raise(s, "IntegrityError")
                ELSE /\ tx' = [tx EXCEPT ![s].ins.usage_summary =
                                   @ \cup {UsageSummary(date, sess[s].tokens, 1)}]
                     /\ sess' = [sess EXCEPT ![s] = AfterTokenUsage(sess[s])]
                     /\ UNCHANGED <<client, text, db, now, calls, startup, hist>>

\* a caller of the ledger: record_token_usage in a session of its own
RecordTokenUsage(s, sid, tokens, limit) ==
    /\ Free(s)
    /\ calls < MaxCalls
    /\ Cardinality(Active) < limit
    /\ sess' = [sess EXCEPT ![s] = [IdleSession EXCEPT !.op = "record", !.pc = "save_token",
                                        !.sid = sid, !.tokens = tokens, !.job = calls + 1]]
    /\ calls' = calls + 1
    /\ UNCHANGED <<client, text, db, tx, now, startup, hist>>

\* the steps that read the clock: the column default of generated_at at
\* the two INSERTs and datetime.utcnow() of line 286
ClockReaders == {"save_prompt", "save_token", "read_summary"}

\* time passes; the clock is looked at when a request is about to read it
Tick(last) ==
    /\ now < last
    /\ \E s \in Sess : sess[s].pc \in ClockReaders
    /\ now' = now + 1
    /\ UNCHANGED <<client, text, db, tx, sess, calls, startup, hist>>


(***************************************************************************)
(* Prompt Template Store (repository.py lines 197-243, seed.py).           *)
(***************************************************************************)
\* DEFAULT_PROMPTS (seed.py lines 9-92): a text of its own for each of
\* the eight names, written here as the name
DEFAULT_PROMPTS == [name \in {ContentTypes[i] : i \in 1..Len(ContentTypes)} |-> name]

\* names and bodies the template operations are called with
Names == {"keywords", "custom"}
Bodies == {"body1", "body2"}

Max(S) == CHOOSE x \in S : \A y \in S : y <= x

\* select(func.max(version)).where(name == name); result.scalar() or 0
MaxVersion(table, name) ==
    LET vs == {r.version : r \in {x \in table : x.name = name}}
    IN  IF vs = {} THEN 0 ELSE Max(vs)

\* the rows matched by get_prompt_template's WHERE clause
ActiveRows(table, name) == {r \in table : r.name = name /\ r.is_active}

\* order_by(desc(version)).limit(1), scalar_one_or_none
TopVersion(rows) ==
    IF rows = {} THEN NoRow
    ELSE CHOOSE r \in rows : \A q \in rows : q.version <= r.version

\* get_prompt_template (lines 197-203), a read in a session of its own
GetActive(s, name) ==
    /\ Free(s)
    /\ calls < MaxOps
    /\ calls' = calls + 1
    /\ sess' = [sess EXCEPT ![s] =
                  [IdleSession EXCEPT !.op = "get_active", !.pc = "closed", !.name = name,
                                      !.seen = ActiveRows(TemplateView(s), name),
                                      !.old = TopVersion(ActiveRows(TemplateView(s), name)),
                                      !.had = name \in hist.everActive]]
    /\ UNCHANGED <<client, text, db, tx, now, startup, hist>>

\* a caller of create_prompt_template in a session of its own
CreateBegin(s, name, body, limit) ==
    /\ Free(s)
    /\ calls < MaxOps
    /\ Cardinality(Active) < limit
    /\ calls' = calls + 1
    /\ sess' = [sess EXCEPT ![s] =
                  [IdleSession EXCEPT !.op = "create", !.pc = "select_max", !.name = name,
                                      !.body = body, !.job = calls + 1]]
    /\ UNCHANGED <<client, text, db, tx, now, startup, hist>>

\* a caller of update_prompt_template in a session of its own
ReplaceBegin(s, name, body, limit) ==
    /\ Free(s)
    /\ calls < MaxOps
    /\ Cardinality(Active) < limit
    /\ calls' = calls + 1
    /\ sess' = [sess EXCEPT ![s] =
                  [IdleSession EXCEPT !.op = "replace", !.pc = "select_active", !.name = name,
                                      !.body = body, !.job = calls + 1]]
    /\ UNCHANGED <<client, text, db, tx, now, startup, hist>>

\* update_prompt_template lines 233-240: select the active row of the
\* name with scalar_one_or_none, which raises on more than one row; the
\* row found is marked inactive in memory and written by the next flush
SelectActive(s) ==
    /\ sess[s].pc = "select_active"
    /\ LET rows == ActiveRows(TemplateView(s), sess[s].name)
       IN  IF Cardinality(rows) > 1
           THEN Raise(s, "MultipleResultsFound")
           ELSE /\ sess' = [sess EXCEPT ![s].pc = "select_max",
                                        ![s].old = IF rows = {} THEN NoRow
                                                   ELSE CHOOSE r \in rows : TRUE]
                /\ UNCHANGED <<client, text, db, tx, now, calls, startup, hist>>

\* create_prompt_template lines 214-216
SelectMax(s) ==
    /\ sess[s].pc = "select_max"
    /\ sess' = [sess EXCEPT ![s].pc = "insert_template",
                            ![s].maxv = MaxVersion(TemplateView(s), sess[s].name)]
    /\ UNCHANGED <<client, text, db, tx, now, calls, startup, hist>>

\* the version column's default instead of the increment
NewVersion_ColumnDefault(max_version) == 1

\* line 221: version = max_version + 1
NewVersion(max_version) == max_version + 1

\* another open transaction has written the template row
TemplateLocked(s, row) ==
    row # NoRow /\ \E t \in Sess \ {s} : row.id \in tx[t].deact

\* create_prompt_template lines 218-226: add the new active row and flush;
\* the flush also writes is_active = False of the row marked by replace
InsertTemplate(s) ==
    /\ sess[s].pc = "insert_template"
    /\ ~TemplateLocked(s, sess[s].old)
    /\ LET row == PromptTemplate(NewId(s), sess[s].name, sess[s].body,
                                 NewVersion(sess[s].maxv), TRUE)
       IN  tx' = [tx EXCEPT ![s].ins.prompt_templates = @ \cup {row},
                            ![s].deact = IF sess[s].old = NoRow THEN @
                                         ELSE @ \cup {sess[s].old.id}]
    /\ sess' = [sess EXCEPT ![s].pc = "returned", ![s].n = @ + 1]
    /\ UNCHANGED <<client, text, db, now, calls, startup, hist>>

\* init_prompt_templates (seed.py lines 95-123) on a table: for every
\* default name, scalar_one_or_none of the rows of that name raises when
\* there are several (the session is rolled back), and version 1 is added
\* when there is none
SeedFails(table) ==
    \E name \in DOMAIN DEFAULT_PROMPTS : Cardinality({r \in table : r.name = name}) > 1

SeedRows(table) ==
    {PromptTemplate(<<0, i>>, ContentTypes[i], DEFAULT_PROMPTS[ContentTypes[i]], 1, TRUE) :
        i \in {j \in 1..Len(ContentTypes) : \A r \in table : r.name # ContentTypes[j]}}

init_prompt_templates(table) ==
    IF SeedFails(table) THEN table ELSE table \cup SeedRows(table)

\* startup_event (main.py lines 142-149): the seeding runs before any
\* request is served; its error is logged and the application continues
Startup ==
    /\ Active = {}
    /\ calls < MaxOps
    /\ calls' = calls + 1
    /\ db' = [db EXCEPT !.prompt_templates = init_prompt_templates(@)]
    /\ startup' = [runs |-> startup.runs + 1,
                   err |-> IF SeedFails(db.prompt_templates)
                           THEN "MultipleResultsFound" ELSE ""]
    /\ hist' = [hist EXCEPT !.everActive =
                    @ \cup ActiveNames(init_prompt_templates(db.prompt_templates))]
    /\ UNCHANGED <<client, text, tx, sess, now>>

TemplateStep(s) ==
    \/ SelectActive(s)
    \/ SelectMax(s)
    \/ InsertTemplate(s)
    \/ Commit(s)

(***************************************************************************)
(* SpecTemplates: seed, create, replace and get_active one after another.  *)
(***************************************************************************)
NextTemplates ==
    \/ Startup
    \/ \E s \in Sess, name \in Names, body \in Bodies : CreateBegin(s, name, body, 1)
    \/ \E s \in Sess, name \in Names, body \in Bodies : ReplaceBegin(s, name, body, 1)
    \/ \E s \in Sess, name \in Names : GetActive(s, name)
    \/ \E s \in Sess : TemplateStep(s)

SpecTemplates == Init /\ [][NextTemplates]_vars

(***************************************************************************)
(* SpecReplace: replace and get_active of concurrent sessions.             *)
(***************************************************************************)
NextReplace ==
    \/ Startup
    \/ \E s \in Sess, name \in Names, body \in Bodies :
            ReplaceBegin(s, name, body, MaxSessions)
    \/ \E s \in Sess, name \in Names : GetActive(s, name)
    \/ \E s \in Sess : TemplateStep(s)

SpecReplace == Init /\ [][NextReplace]_vars

LedgerStep(s) ==
    \/ SaveTokenUsage(s)
    \/ ReadUsageSummary(s)
    \/ WriteUsageSummary(s)
    \/ Commit(s)

(***************************************************************************)
(* SpecLedger: record_token_usage calls made one after another.            *)
(***************************************************************************)
NextLedger ==
    \/ \E s \in Sess, sid \in RequestIds, k \in 1..MaxTokens : RecordTokenUsage(s, sid, k, 1)
    \/ \E s \in Sess : LedgerStep(s)
    \/ Tick(MaxClock)

SpecLedger == Init /\ [][NextLedger]_vars

(***************************************************************************)
(* SpecConcurrent: record_token_usage calls of concurrent sessions.        *)
(***************************************************************************)
NextConcurrent ==
    \/ \E s \in Sess, sid \in RequestIds, k \in 1..MaxTokens :
            RecordTokenUsage(s, sid, k, MaxSessions)
    \/ \E s \in Sess : LedgerStep(s)
    \/ Tick(MaxClock)

SpecConcurrent == Init /\ [][NextConcurrent]_vars

\* the committed rows of usage_summary of a day
DayRows(d) == {r \in db.usage_summary : r.date = d}
Days == 0..DateOf(MaxClock)
TokenRowsOn(d) == {r \in db.token_usage : DateOf(r.generated_at) = d}

\* C1: after record_token_usage calls made one after another, the summary
\* row of every day holds the sum of the TokenUsage rows generated on that
\* day, and a day without TokenUsage rows has no summary row.
C1_DailyLedgerConsistent ==
    (Active = {}) =>
        \A d \in Days :
            IF TokenRowsOn(d) = {} THEN DayRows(d) = {}
            ELSE /\ Cardinality(DayRows(d)) = 1
                 /\ \A r \in DayRows(d) : r.total_tokens = SumTokens(TokenRowsOn(d))

\* the sums over all days agree
C1_TotalLedgerConsistent ==
    (Active = {}) => SumTokens(db.usage_summary) = SumTokens(db.token_usage)

C1_Witness ==
    /\ Active = {}
    /\ Cardinality(db.token_usage) >= 2
    /\ Cardinality(db.usage_summary) >= 2

\* C2: when concurrent sessions record token usage for the same day, no
\* call fails and the day's row counts every call and every token.
C2_ConcurrentIncrementsKept ==
    (Active = {}) =>
        /\ \A c \in hist.ledger : c.ok
        /\ \A d \in Days :
            LET cs == {c \in hist.ledger : c.date = d}
            IN  cs # {} =>
                    /\ Cardinality(DayRows(d)) = 1
                    /\ \A r \in DayRows(d) :
                          /\ r.request_count = Cardinality(cs)
                          /\ r.total_tokens = SumTokens({[id |-> c.id, total_tokens |-> c.tokens] : c \in cs})

(***************************************************************************)
(* Content Orchestrator: the generate-content request (main.py lines       *)
(* 486-553) with ContentGenerator.generate_all_content_with_db and         *)
(* _generate_content_with_db, one step per await.                          *)
(***************************************************************************)
\* the usage the provider reports for the calls of a job
JobTokens == {MaxTokens}

\* lines 486-499: a request arrives with its session_id
GenerateContent(s, sid, tokens, limit) ==
    /\ Free(s)
    /\ calls < MaxJobs
    /\ Cardinality(Active) < limit
    /\ calls' = calls + 1
    /\ sess' = [sess EXCEPT ![s] =
                  [IdleSession EXCEPT !.op = "job", !.pc = "create_session", !.sid = sid,
                                      !.tokens = tokens, !.job = calls + 1]]
    /\ UNCHANGED <<client, text, db, tx, now, startup, hist>>

\* another open transaction has inserted a sessions row with this key
SessionLocked(s, sid) ==
    \E t \in Sess \ {s} : \E r \in tx[t].ins.sessions : r.session_id = sid

\* a create_session that commits its row at once
CreateSession_Autocommit(s) ==
    /\ sess[s].pc = "create_session"
    /\ ~SessionLocked(s, sess[s].sid)
    /\ IF \E r \in db.sessions : r.session_id = sess[s].sid
       THEN Raise(s, "IntegrityError")
       ELSE /\ db' = [db EXCEPT !.sessions =
                          @ \cup {[session_id |-> sess[s].sid, status |-> "processing"]}]
            /\ sess' = [sess EXCEPT ![s].pc = "lookup", ![s].ct = 1]
            /\ UNCHANGED <<client, text, tx, now, calls, startup, hist>>

\* main.py line 502, Repository.create_session (lines 24-30);
\* sessions.session_id is unique (models.py line 12)
CreateSession(s) ==
    /\ sess[s].pc = "create_session"
    /\ ~SessionLocked(s, sess[s].sid)
    /\ IF \E r \in db.sessions : r.session_id = sess[s].sid
       THEN Raise(s, "IntegrityError")
       ELSE /\ tx' = [tx EXCEPT ![s].ins.sessions =
                          @ \cup {[session_id |-> sess[s].sid, status |-> "processing"]}]
            /\ sess' = [sess EXCEPT ![s].pc = "lookup", ![s].ct = 1]
            /\ UNCHANGED <<client, text, db, now, calls, startup, hist>>

\* line 202: template.template.format(**fmt_kwargs) with the fields of
\* the request
Format(template, sid) == <<template, sid>>

\* lines 209-233: what _generate_content_with_db does once the prompt is
\* rendered, in order
StagesCallFirst == <<"lookup", "call", "save_prompt", "save_token">>

Stages == <<"lookup", "save_prompt", "call", "save_token">>

StageAfter(stage) ==
    Stages[1 + CHOOSE i \in 1..(Len(Stages) - 1) : Stages[i] = stage]

\* a lookup that gives up without an active template
Lookup_Strict(s) ==
    /\ sess[s].pc = "lookup"
    /\ Raise(s, "TemplateNotFound")

\* lines 185-207: the active template of the content type is looked up
\* and rendered; without one the prompt is "Generate <type>"
Lookup(s) ==
    /\ sess[s].pc = "lookup"
    /\ LET name == ContentTypes[sess[s].ct]
           template == TopVersion(ActiveRows(TemplateView(s), name))
       IN  sess' = [sess EXCEPT ![s].pc = StageAfter("lookup"),
                                ![s].res = NoRow,
                                ![s].tmpl = template,
                                ![s].prompt = IF template = NoRow
                                              THEN <<"Generate ", name>>
                                              ELSE Format(template.template, sess[s].sid)]
    /\ UNCHANGED <<client, text, db, tx, now, calls, startup, hist>>

\* line 210, Repository.save_prompt_usage (lines 247-256)
SavePromptUsage(s) ==
    /\ sess[s].pc = "save_prompt"
    /\ LET id == NewId(s)
           row == PromptUsage(id, sess[s].sid, TemplateId(sess[s].tmpl), sess[s].prompt, now)
       IN  /\ tx' = [tx EXCEPT ![s].ins.prompt_usage = @ \cup {row}]
           /\ sess' = [sess EXCEPT ![s].pc = StageAfter("save_prompt"), ![s].pu = id,
                                   ![s].n = @ + 1]
    /\ UNCHANGED <<client, text, db, now, calls, startup, hist>>

\* line 213, OpenAIService.generate_text_with_tokens: the prompt goes to
\* the provider; either some candidate model returns a completion with
\* its usage, or every candidate fails and the call raises
ProviderCall(s) ==
    /\ sess[s].pc = "call"
    /\ \/ /\ sess' = [sess EXCEPT ![s].pc = StageAfter("call"),
                                   ![s].res = [prompt |-> sess[s].prompt,
                                               total_tokens |-> sess[s].tokens]]
          /\ UNCHANGED <<client, text, db, tx, now, calls, startup, hist>>
       \/ Raise(s, "OpenAIError")

\* line 82, Repository.save_generated_content (lines 168-187)
SaveGeneratedContent(s) ==
    /\ sess[s].pc = "save_content"
    /\ tx' = [tx EXCEPT ![s].ins.generated_content =
                  @ \cup {[id |-> NewId(s), session_id |-> sess[s].sid]}]
    /\ sess' = [sess EXCEPT ![s].pc = "save_guest", ![s].n = @ + 1]
    /\ UNCHANGED <<client, text, db, now, calls, startup, hist>>

\* main.py lines 521-527, Repository.save_guest (lines 144-158)
SaveGuest(s) ==
    /\ sess[s].pc = "save_guest"
    /\ tx' = [tx EXCEPT ![s].ins.guests = @ \cup {[id |-> NewId(s), session_id |-> sess[s].sid]}]
    /\ sess' = [sess EXCEPT ![s].pc = "update_status", ![s].n = @ + 1]
    /\ UNCHANGED <<client, text, db, now, calls, startup, hist>>

\* main.py line 530, Repository.update_session_status (lines 47-54): the
\* row is the one this transaction inserted
UpdateSessionStatus(s) ==
    /\ sess[s].pc = "update_status"
    /\ tx' = [tx EXCEPT ![s].ins.sessions =
                  {IF r.session_id = sess[s].sid THEN [r EXCEPT !.status = "completed"] ELSE r :
                      r \in @}]
    /\ sess' = [sess EXCEPT ![s].pc = "returned"]
    /\ UNCHANGED <<client, text, db, now, calls, startup, hist>>

JobStep(s) ==
    \/ CreateSession(s)
    \/ Lookup(s)
    \/ SavePromptUsage(s)
    \/ ProviderCall(s)
    \/ SaveTokenUsage(s)
    \/ ReadUsageSummary(s)
    \/ WriteUsageSummary(s)
    \/ SaveGeneratedContent(s)
    \/ SaveGuest(s)
    \/ UpdateSessionStatus(s)
    \/ Commit(s)

(***************************************************************************)
(* SpecJob: generate-content requests, possibly concurrent.  The startup   *)
(* before them has seeded the templates, or its seeding failed.  The       *)
(* requests run around a midnight: the clock stands at the last instant    *)
(* of a day and goes on to the first instant of the next day.              *)
(***************************************************************************)
InitJob ==
    /\ db \in {[EmptyTables EXCEPT !.prompt_templates = init_prompt_templates({})],
               EmptyTables}
    /\ tx = [s \in Sess |-> EmptyTx]
    /\ sess = [s \in Sess |-> IdleSession]
    /\ now = InstantsPerDay - 1
    /\ calls = 0
    /\ startup = [runs |-> 1, err |-> ""]
    /\ hist = [ledger |-> {}, ops |-> <<>>, everActive |-> {}]
    /\ client = IdleClient
    /\ text = NoText

NextJob ==
    \/ \E s \in Sess, sid \in RequestIds, k \in JobTokens :
            GenerateContent(s, sid, k, MaxSessions)
    \/ \E s \in Sess : JobStep(s)
    \/ Tick(InstantsPerDay)

SpecJob == InitJob /\ [][NextJob]_vars

(***************************************************************************)
(* Prompt Template Store properties.                                       *)
(***************************************************************************)
TemplateNames == {r.name : r \in db.prompt_templates}

\* C7: after any sequence of seed, create and replace operations at most
\* one row per name is active.
C7_OneActivePerName ==
    \A name \in TemplateNames : Cardinality(ActiveRows(db.prompt_templates, name)) <= 1

\* the committed create and replace operations of a name, in order
OpsOn(name) == SelectSeq(hist.ops, LAMBDA o : o.name = name)

Seeded(name) == \E r \in db.prompt_templates : r.name = name /\ r.id[1] = 0

\* C8: a create or replace gives the new row version 1 + the highest
\* version stored for the name, no two rows of a name share a version, and
\* create(name, body1) followed by replace(name, body2) on a new name
\* leaves exactly one active row, with body2 and version 2.
C8_VersionsIncrease ==
    /\ \A s \in Sess :
          sess[s].pc = "returned" /\ sess[s].op \in {"create", "replace"} =>
              \A r \in tx[s].ins.prompt_templates :
                  r.version = 1 + MaxVersion(db.prompt_templates, r.name)
    /\ \A r1, r2 \in db.prompt_templates :
          r1.name = r2.name /\ r1.version = r2.version => r1 = r2
    /\ \A name \in Names, b1, b2 \in Bodies :
          /\ ~Seeded(name)
          /\ OpsOn(name) = <<[op |-> "create", name |-> name, body |-> b1],
                             [op |-> "replace", name |-> name, body |-> b2]>>
          => /\ Cardinality(ActiveRows(db.prompt_templates, name)) = 1
             /\ TopVersion(ActiveRows(db.prompt_templates, name)).template = b2
             /\ TopVersion(ActiveRows(db.prompt_templates, name)).version = 2

C8_Witness ==
    /\ Active = {}
    /\ OpsOn("custom") = <<[op |-> "create", name |-> "custom", body |-> "body1"],
                           [op |-> "replace", name |-> "custom", body |-> "body2"]>>
    /\ Cardinality({r \in db.prompt_templates : r.name = "custom"}) = 2

\* C9: seeding at any startup completes without error, inserts version 1
\* exactly for the default names that have no row, leaves every existing
\* row unchanged, and seeding again changes nothing.
C9_SeedingIdempotent ==
    [][startup'.runs # startup.runs =>
        /\ startup'.err = ""
        /\ db.prompt_templates \subseteq db'.prompt_templates
        /\ db'.prompt_templates \ db.prompt_templates = SeedRows(db.prompt_templates)
        /\ init_prompt_templates(db'.prompt_templates) = db'.prompt_templates]_vars

\* C10: while replace runs concurrently with get_active and with another
\* replace of the same name, every get_active of a name that had an
\* active version observes exactly one active row.
C10_ReadersSeeOneActive ==
    \A s \in Sess :
        sess[s].op = "get_active" /\ sess[s].had => Cardinality(sess[s].seen) = 1

(***************************************************************************)
(* Orchestrator and ledger properties of the generate-content request.     *)
(***************************************************************************)
Jobs == {s \in Sess : sess[s].op = "job"}

\* C3: a content type's prompt goes to the provider only after a
\* PromptUsage row of the job holding that rendered prompt was recorded.
C3_PromptRecordedBeforeCall ==
    [][\A s \in Jobs :
          sess[s].pc = "call" /\ sess'[s].pc # "call" =>
              \E u \in PromptUsageView(s) :
                  /\ u.session_id = sess[s].sid
                  /\ u.id[1] = sess[s].job
                  /\ u.prompt_text_used = sess[s].prompt]_vars

C3_Witness ==
    \E s \in Jobs :
        /\ sess[s].ct = Len(ContentTypes)
        /\ sess[s].pc = "save_token"
        /\ sess[s].res # NoRow
        /\ Cardinality(tx[s].ins.prompt_usage) = Len(ContentTypes)

\* C4: when the provider call of a content type fails on every candidate,
\* the PromptUsage rows the job has recorded are in the store after the
\* request has ended.
C4_PromptUsageSurvivesFailure ==
    [][\A s \in Jobs :
          sess[s].pc = "call" /\ sess'[s].pc = "closed" /\ sess'[s].err = "OpenAIError" =>
              /\ tx[s].ins.prompt_usage # {}
              /\ tx[s].ins.prompt_usage \subseteq db'.prompt_usage]_vars

\* every TokenUsage row references exactly one PromptUsage row, of the
\* same job and not generated later, and no PromptUsage row is referenced
\* twice
LedgerLinked(prompt_usage, token_usage) ==
    /\ \A t \in token_usage :
          LET referenced == {u \in prompt_usage : u.id = t.prompt_usage_id}
          IN  /\ Cardinality(referenced) = 1
              /\ \A u \in referenced :
                    /\ u.session_id = t.session_id
                    /\ u.generated_at <= t.generated_at
    /\ Cardinality({t.prompt_usage_id : t \in token_usage}) = Cardinality(token_usage)

\* C5: in every state of the ledger the TokenUsage rows are linked one to
\* one to PromptUsage rows of the same job that are not younger, and a
\* TokenUsage row is written only for a provider call that returned (for
\* the prompt of the PromptUsage row it references).
C5_TokenUsageLinked ==
    /\ [](/\ LedgerLinked(db.prompt_usage, db.token_usage)
          /\ \A s \in Sess :
                tx[s] # EmptyTx => LedgerLinked(PromptUsageView(s), TokenUsageView(s)))
    /\ [][\A s \in Jobs :
            \A t \in tx'[s].ins.token_usage \ tx[s].ins.token_usage :
                /\ sess[s].res # NoRow
                /\ \E u \in tx[s].ins.prompt_usage :
                      /\ u.id = t.prompt_usage_id
                      /\ u.prompt_text_used = sess[s].res.prompt]_vars

C5_Witness ==
    /\ \E t \in db.token_usage, u \in db.prompt_usage :
          u.id = t.prompt_usage_id /\ u.generated_at < t.generated_at
    /\ \E s \in Jobs : \E u \in tx[s].ins.prompt_usage :
          \A t \in tx[s].ins.token_usage : t.prompt_usage_id # u.id

\* C6: when the daily-summary update of save_token_usage fails, the
\* TokenUsage row of that call is in the store after the request has ended.
C6_TokenUsageSurvivesSummaryFailure ==
    [][\A s \in Jobs :
          sess[s].pc = "write_summary" /\ sess'[s].pc = "closed" /\ sess'[s].err # "" =>
              \E t \in db'.token_usage : t.id = sess[s].tu]_vars

(***************************************************************************)
(* Completion Client: OpenAIService.generate_text_with_tokens              *)
(* (services/openai_service.py lines 85-132), one step per provider        *)
(* attempt.  A text is written as the number of its characters that come   *)
(* from the prompt and whether it ends in TRUNCATION_NOTE.                 *)
(***************************************************************************)
MAX_PROMPT_CHARS == 50000
TruncationNoteLen == 93
MaxExcess == 2

store == <<db, tx, sess, now, calls, startup, hist>>

Prompt(chars, note) == [chars |-> chars, note |-> note]

\* len(prompt)
Length(prompt) == prompt.chars + (IF prompt.note THEN TruncationNoteLen ELSE 0)

\* the prompts the client is called with: around the character budget
Prompts == {Prompt(n, FALSE) : n \in (MAX_PROMPT_CHARS - MaxExcess)..(MAX_PROMPT_CHARS + MaxExcess)}

\* prompt[: k]
Slice(prompt, k) ==
    IF prompt.chars >= k THEN Prompt(k, FALSE)
    ELSE IF Length(prompt) <= k THEN prompt
    ELSE Prompt(prompt.chars, FALSE)

\* the cut without the notice
truncate_prompt_NoNote(prompt) ==
    IF Length(prompt) <= MAX_PROMPT_CHARS THEN prompt
    ELSE Slice(prompt, MAX_PROMPT_CHARS)

\* _truncate_prompt (lines 14-18)
truncate_prompt(prompt) ==
    IF Length(prompt) <= MAX_PROMPT_CHARS THEN prompt
    ELSE [Slice(prompt, MAX_PROMPT_CHARS - TruncationNoteLen) EXCEPT !.note = TRUE]

\* lines 36-39
fallback_models ==
    <<"gpt-5-nano", "gpt-5", "gpt-5.1", "gpt-5.2", "gpt-4o-mini", "gpt-4o", "gpt-3.5-turbo">>

\* OPENAI_MODEL (line 33): the default, or one of the fallback list
ConfiguredModels == {"gpt-5-mini", "gpt-4o-mini"}

\* the list without the filter
models_to_try_Unfiltered(model) == <<model>> \o fallback_models

\* line 87
models_to_try(model) == <<model>> \o SelectSeq(fallback_models, LAMBDA m : m # model)

\* what the provider's exception says
Errors == {"context_length_exceeded", "model_not_found", "other"}

\* _is_context_length_error (lines 21-22)
is_context_length_error(error_msg) == error_msg = "context_length_exceeded"

\* lines 123 and 130: "model_not_found" in error_msg or "does not have access" in error_msg
is_unavailable(error_msg) == error_msg = "model_not_found"

\* line 119: the condition of truncate-and-retry
Retry(error_msg, attempt, user_content) ==
    /\ is_context_length_error(error_msg)
    /\ attempt = 0
    /\ Length(user_content) > MAX_PROMPT_CHARS

\* the configured model instead of the candidate
ResultModel_Configured(c) == c.model

\* line 114: 'model': model_to_try
ResultModel(c) == c.models[c.i]

\* lines 128-132: the exception raised after the last candidate; the
\* message names the models tried only when the last error says that the
\* model is not available
Exhausted(models, error_msg) ==
    IF is_unavailable(error_msg)
    THEN [tried |-> models, cause |-> error_msg]
    ELSE [tried |-> <<>>, cause |-> error_msg]

\* a caller calls generate_text_with_tokens(prompt) on a service
\* configured with model
Complete(prompt, model) ==
    /\ client.pc \in {"idle", "returned", "raised"}
    /\ client' = [pc |-> "attempt", model |-> model, prompt |-> prompt,
                  models |-> models_to_try(model), i |-> 1, attempt |-> 0,
                  user_content |-> prompt, log |-> <<>>, last_error |-> "none",
                  result |-> NoRow, error |-> NoRow]
    /\ UNCHANGED <<store, text>>

Attempted(c) == Append(c.log, [model |-> c.models[c.i], content |-> c.user_content])

\* lines 95-115: the provider answers and the call returns
AttemptReturns ==
    /\ client.pc = "attempt"
    /\ client' = [client EXCEPT !.pc = "returned", !.log = Attempted(client),
                                !.result = [model |-> ResultModel(client),
                                            content |-> client.user_content]]
    /\ UNCHANGED <<store, text>>

\* lines 116-132: the attempt raises; retry once with the truncated
\* prompt, go on to the next candidate, or raise after the last one
AttemptFails(error_msg) ==
    /\ client.pc = "attempt"
    /\ client' =
          IF Retry(error_msg, client.attempt, client.user_content)
          THEN [client EXCEPT !.log = Attempted(client), !.last_error = error_msg,
                              !.attempt = 1,
                              !.user_content = truncate_prompt(client.user_content)]
          ELSE IF client.i < Len(client.models)
          THEN [client EXCEPT !.log = Attempted(client), !.last_error = error_msg,
                              !.i = @ + 1, !.attempt = 0,
                              !.user_content = client.prompt]
          ELSE [client EXCEPT !.log = Attempted(client), !.last_error = error_msg,
                              !.pc = "raised",
                              !.error = Exhausted(client.models, error_msg)]
    /\ UNCHANGED <<store, text>>

NextComplete ==
    \/ \E prompt \in Prompts, model \in ConfiguredModels : Complete(prompt, model)
    \/ AttemptReturns
    \/ \E error_msg \in Errors : AttemptFails(error_msg)

SpecComplete == Init /\ [][NextComplete]_vars

\* the provider answers every request, with a completion or an error
SpecCompleteFair ==
    SpecComplete /\ WF_vars(AttemptReturns \/ \E error_msg \in Errors : AttemptFails(error_msg))

(***************************************************************************)
(* Completion Client properties.                                           *)
(***************************************************************************)
\* the step is a provider attempt that raised error_msg
Failed(error_msg) ==
    /\ client.pc = "attempt"
    /\ client'.pc \in {"attempt", "raised"}
    /\ client'.log # client.log
    /\ client'.last_error = error_msg

\* the step goes on to one more attempt against the same candidate, with
\* the prompt cut to the character budget and ending in the notice
RetriedTruncated ==
    /\ client'.pc = "attempt"
    /\ client'.i = client.i
    /\ client'.attempt = 1
    /\ Length(client'.user_content) = MAX_PROMPT_CHARS
    /\ client'.user_content.note

\* the step leaves the candidate
CandidateLeft ==
    \/ client'.pc = "raised"
    \/ client'.pc = "attempt" /\ client'.i = client.i + 1 /\ client'.attempt = 0

\* C11: whenever a candidate's first attempt fails with a context-length
\* error, exactly one more attempt is made against the same candidate with
\* the truncated prompt ending in the notice; a second context-length
\* failure on that candidate is not retried.
C11_ContextLengthRetriedOnce ==
    [][/\ Failed("context_length_exceeded") /\ client.attempt = 0 => RetriedTruncated
       /\ Failed("context_length_exceeded") /\ client.attempt = 1 => CandidateLeft]_vars

\* C11, amended: the retry is made when the first attempt's prompt is longer
\* than the character budget; a context-length failure on a prompt within
\* the budget, or a second one on the candidate, goes on to the next
\* candidate without a retry.
C11_LongPromptRetriedOnce ==
    [][/\ /\ Failed("context_length_exceeded")
          /\ client.attempt = 0
          /\ Length(client.user_content) > MAX_PROMPT_CHARS
          => RetriedTruncated
       /\ /\ Failed("context_length_exceeded")
          /\ \/ client.attempt = 1
             \/ Length(client.user_content) <= MAX_PROMPT_CHARS
          => CandidateLeft]_vars

C11_Witness ==
    /\ client.pc = "attempt"
    /\ \E k \in 1..Len(client.log) :
          /\ k + 2 <= Len(client.log)
          /\ client.log[k].model = client.log[k + 1].model
          /\ client.log[k].content = Prompt(MAX_PROMPT_CHARS + 1, FALSE)
          /\ client.log[k + 1].content = Prompt(MAX_PROMPT_CHARS - TruncationNoteLen, TRUE)
          /\ client.log[k + 2].model # client.log[k].model
    /\ client.last_error = "context_length_exceeded"

\* the candidates in the order they are to be tried: the configured
\* primary, then the fallback sequence
CandidateOrder == <<client.model>> \o fallback_models

\* the first place of model m in the order
Place(m) == CHOOSE j \in 1..Len(CandidateOrder) :
                /\ CandidateOrder[j] = m
                /\ \A h \in 1..(j - 1) : CandidateOrder[h] # m

\* the attempts made so far follow the order: the first one goes to the
\* primary, an attempt goes to the candidate of the attempt before it (at
\* most once) or to the next candidate of the order that is not the primary
InListOrder ==
    /\ Len(client.log) > 0 => client.log[1].model = client.model
    /\ \A k \in 1..(Len(client.log) - 1) :
          LET a == client.log[k].model
              b == client.log[k + 1].model
          IN  /\ \E j \in 1..Len(CandidateOrder) : CandidateOrder[j] = b
              /\ Place(a) <= Place(b)
              /\ \A j \in (Place(a) + 1)..(Place(b) - 1) : CandidateOrder[j] = client.model
              /\ k + 2 <= Len(client.log) => client.log[k + 2].model # a

\* C12: the candidates are tried in list order, a candidate is left on any
\* failure other than the retried context-length error, no attempt follows
\* the attempt that returned, and the result's model is the candidate whose
\* attempt returned: the primary after its truncated retry, the second
\* fallback when the primary and the first fallback are unavailable.
C12_FallbackOrderAndModel ==
    /\ [](client.pc # "idle" =>
            /\ InListOrder
            /\ client.pc = "returned" =>
                  /\ client.result.model = client.log[Len(client.log)].model
                  /\ (Len(client.log) = 2 /\ client.log[1].model = client.log[2].model
                        => client.result.model = client.model)
                  /\ (Len(client.log) = 3 /\ client.log[2].model # client.log[3].model
                        /\ client.log[1].model # client.log[2].model
                        /\ client.model \notin {fallback_models[1], fallback_models[2]}
                        => client.result.model = fallback_models[2]))
    /\ [][/\ (\E error_msg \in Errors :
                 /\ Failed(error_msg)
                 /\ ~RetriedTruncated \/ error_msg # "context_length_exceeded")
             => CandidateLeft
          /\ client.pc = "returned" =>
                \/ client'.pc = "returned" /\ client'.log = client.log
                \/ client'.pc = "attempt" /\ client'.log = <<>>]_vars

C12_Witness ==
    /\ client.pc = "returned"
    /\ client.model = "gpt-5-mini"
    /\ client.last_error = "model_not_found"
    /\ Len(client.log) = 3
    /\ client.log[2].model = "gpt-5-nano"
    /\ client.result.model = "gpt-5"

\* the candidate models of the call: the configured one and the fallbacks
Candidates == {client.model} \cup {fallback_models[j] : j \in 1..Len(fallback_models)}

\* C13: every call of the client ends, with a result or with a failure,
\* after at most 2 x (number of candidate models) provider attempts,
\* whatever errors the provider returns.
C13_AttemptsBounded ==
    /\ [](client.pc # "idle" => Len(client.log) <= 2 * Cardinality(Candidates))
    /\ (client.pc = "attempt" ~> client.pc \in {"returned", "raised"})

C13_Witness ==
    /\ client.pc = "raised"
    /\ Len(client.log) = 2 * Cardinality(Candidates)

\* the models of the attempts made, each once, in order
RECURSIVE AttemptedModels(_)
AttemptedModels(log) ==
    IF log = <<>> THEN <<>>
    ELSE LET before == AttemptedModels(SubSeq(log, 1, Len(log) - 1))
             m == log[Len(log)].model
         IN  IF \E j \in 1..Len(before) : before[j] = m THEN before ELSE Append(before, m)

\* C14: when every candidate has failed, the call fails with one error that
\* carries the list of all attempted model ids and the last underlying
\* error, whatever the kind of the last failure.
C14_ExhaustedCarriesModelsAndCause ==
    client.pc = "raised" =>
        /\ client.error.cause = client.last_error
        /\ client.error.tried = AttemptedModels(client.log)

(***************************************************************************)
(* Texts.  A Python str is written as the sequence of its characters; the  *)
(* operators below are the str methods the content parsers use.            *)
(***************************************************************************)
Whitespace == {" ", "\t", "\n"}
\* the character U+2022
Bullet == "bullet"

Digits == {"0", "1", "2", "3", "4", "5", "6", "7", "8", "9"}

Min(S) == CHOOSE x \in S : \A y \in S : x <= y

\* s[:k]
Prefix(s, k) == SubSeq(s, 1, IF k < Len(s) THEN k ELSE Len(s))

\* the places of character c in s
Places(s, c) == {i \in 1..Len(s) : s[i] = c}

\* s.strip()
Strip(s) ==
    LET I == {i \in 1..Len(s) : s[i] \notin Whitespace}
    IN  IF I = {} THEN <<>> ELSE SubSeq(s, Min(I), Max(I))

\* s.rstrip(chars)
RStrip(s, chars) ==
    LET I == {i \in 1..Len(s) : s[i] \notin chars}
    IN  IF I = {} THEN <<>> ELSE SubSeq(s, 1, Max(I))

\* s.split(c): the pieces between the occurrences of c
Split(s, c) ==
    LET P == Places(s, c)
        starts == {0} \cup P
        EndOf(a) == Min({p \in P : p > a} \cup {Len(s) + 1})
        Rank(a) == Cardinality({b \in starts : b <= a})
    IN  [k \in 1..Cardinality(starts) |->
            LET a == CHOOSE b \in starts : Rank(b) = k
            IN  SubSeq(s, a + 1, EndOf(a) - 1)]

\* s.split(c, 1)[-1]: what follows the first c, all of s without one
AfterFirst(s, c) ==
    IF Places(s, c) = {} THEN s ELSE SubSeq(s, Min(Places(s, c)) + 1, Len(s))

\* s.rfind(c), counted from 0; -1 without one
RFind(s, c) == IF Places(s, c) = {} THEN -1 ELSE Max(Places(s, c)) - 1

\* sep.join(parts)
RECURSIVE Join(_, _)
Join(parts, sep) ==
    IF parts = <<>> THEN <<>>
    ELSE IF Len(parts) = 1 THEN parts[1]
    ELSE Join(SubSeq(parts, 1, Len(parts) - 1), sep) \o sep \o parts[Len(parts)]

\* n times the element x
Repeat(x, n) == [i \in 1..n |-> x]

(***************************************************************************)
(* List parsing (content_generator.py lines 254-274) and the two content   *)
(* types that use it (lines 110-134).                                      *)
(***************************************************************************)
\* lines 258-268: what one line of the response adds to items
ListItem(raw) ==
    LET line == Strip(raw)
        unnumbered ==
            IF line # <<>> /\ line[1] \in Digits
                    /\ (Places(Prefix(line, 3), ".") # {} \/ Places(Prefix(line, 3), ")") # {})
            THEN IF Places(Prefix(line, 3), ".") # {}
                 THEN Strip(AfterFirst(line, "."))
                 ELSE Strip(AfterFirst(line, ")"))
            ELSE line
        unbulleted ==
            IF unnumbered # <<>> /\ unnumbered[1] \in {"-", Bullet}
            THEN Strip(SubSeq(unnumbered, 2, Len(unnumbered)))
            ELSE unnumbered
    IN  IF unbulleted = <<>> THEN <<>> ELSE <<unbulleted>>

RECURSIVE ListItems(_)
ListItems(lines) ==
    IF lines = <<>> THEN <<>>
    ELSE ListItems(SubSeq(lines, 1, Len(lines) - 1)) \o ListItem(lines[Len(lines)])

\* the padding left out
Pad_None(items, target_count, default_item) == items

\* lines 271-272: while len(items) < target_count and default_item
Pad(items, target_count, default_item) ==
    IF Len(items) < target_count /\ default_item # <<>>
    THEN items \o Repeat(default_item, target_count - Len(items))
    ELSE items

\* _parse_list_response
parse_list_response(response, target_count, default_item) ==
    Prefix(Pad(ListItems(Split(response, "\n")), target_count, default_item), target_count)

TitleItems == 20
TitleMaxChars == 100
QuoteItems == 20
MaxRun == 11

\* line 117: f"Insights from {guest_name} at {guest_company}"
TitleDefault(guest_name, guest_company) ==
    <<"I", "n", "s", "i", "g", "h", "t", "s", " ", "f", "r", "o", "m", " ">> \o guest_name
        \o <<" ", "a", "t", " ">> \o guest_company

\* line 133: "Notable insight from the episode"
QuoteDefault ==
    <<"N", "o", "t", "a", "b", "l", "e", " ", "i", "n", "s", "i", "g", "h", "t", " ",
      "f", "r", "o", "m", " ", "t", "h", "e", " ", "e", "p", "i", "s", "o", "d", "e">>

\* the cut left out
Shorten_None(items) == items

\* line 119: [t[:100] for t in result['content']]
Shorten(items) == [k \in 1..Len(items) |-> Prefix(items[k], TitleMaxChars)]

\* _generate_clickbait_titles_with_db_impl (lines 110-120) on the
\* provider's text
ClickbaitTitles(response, guest_name, guest_company) ==
    Shorten(parse_list_response(response, TitleItems, TitleDefault(guest_name, guest_company)))

\* _generate_quotes_with_db_impl (lines 127-134) on the provider's text
Quotes(response) == parse_list_response(response, QuoteItems, QuoteDefault)

\* lines a provider writes: numbered, bulleted, plain, blank, a number or
\* a bullet alone, and a line longer than a title may be
ListLines ==
    {<<"1", ".", " ", "a">>, <<"2", ")", " ", "b">>, <<" ", "-", " ", "c", " ">>,
     <<" ", " ">>, <<"1", ".">>, <<Bullet, "d">>,
     <<"1", "2", ".">> \o Repeat("e", TitleMaxChars + 1),
     <<"1", "0", "0", ".", " ", "f">>}

\* the provider's texts: runs of two kinds of lines
ListResponses ==
    {Join(Repeat(a, i) \o Repeat(b, j), <<"\n">>) :
        a \in ListLines, b \in ListLines, i \in 0..MaxRun, j \in 0..MaxRun}

GuestNames == {<<"G">>, Repeat("g", TitleMaxChars)}

InitLists ==
    /\ db = EmptyTables
    /\ tx = [s \in Sess |-> EmptyTx]
    /\ sess = [s \in Sess |-> IdleSession]
    /\ now = 0
    /\ calls = 0
    /\ startup = [runs |-> 0, err |-> ""]
    /\ hist = [ledger |-> {}, ops |-> <<>>, everActive |-> {}]
    /\ client = IdleClient
    /\ text \in {[pc |-> "response", response |-> r, guest_name |-> g, content |-> <<>>] :
                    r \in ListResponses, g \in GuestNames}

GenerateClickbaitTitles ==
    /\ text.pc = "response"
    /\ text' = [text EXCEPT !.pc = "clickbait_titles",
                            !.content = ClickbaitTitles(text.response, text.guest_name, <<"C">>)]
    /\ UNCHANGED <<store, client>>

GenerateQuotes ==
    /\ text.pc = "response"
    /\ text' = [text EXCEPT !.pc = "quotes", !.content = Quotes(text.response)]
    /\ UNCHANGED <<store, client>>

\* the target counts and default items of a caller
TargetCounts == {2, 20}
DefaultItems == {<<"X">>}

\* _parse_list_response called with a target count and a default item
ParseList(target_count, default_item) ==
    /\ text.pc = "response"
    /\ text' = [pc |-> "list", response |-> text.response, guest_name |-> text.guest_name,
                target_count |-> target_count, default_item |-> default_item,
                content |-> parse_list_response(text.response, target_count, default_item)]
    /\ UNCHANGED <<store, client>>

NextLists ==
    \/ GenerateClickbaitTitles
    \/ GenerateQuotes
    \/ \E n \in TargetCounts, d \in DefaultItems : ParseList(n, d)

SpecLists == InitLists /\ [][NextLists]_vars

\* C15: whatever text the provider returned, clickbait_titles holds exactly
\* 20 strings of at most 100 characters each and quotes holds exactly 20
\* strings.
C15_TwentyTitlesAndQuotes ==
    /\ text.pc = "clickbait_titles" =>
          /\ Len(text.content) = 20
          /\ \A k \in 1..Len(text.content) :
                Len(text.content[k]) <= 100 /\ text.content[k] # <<>>
    /\ text.pc = "quotes" =>
          /\ Len(text.content) = 20
          /\ \A k \in 1..Len(text.content) : text.content[k] # <<>>

C15_Witness ==
    /\ text.pc = "clickbait_titles"
    /\ Len(Split(text.response, "\n")) > 20
    /\ \E k \in 1..Len(text.content) : Len(text.content[k]) = 100
    /\ text.content[20] = Prefix(TitleDefault(text.guest_name, <<"C">>), 100)
    /\ Len(TitleDefault(text.guest_name, <<"C">>)) > 100

(***************************************************************************)
(* Timestamp-list parsing (content_generator.py lines 276-287, 574-585).   *)
(***************************************************************************)
MaxLines == 3

\* the places where sep begins in s
PlacesOf(s, sep) == {i \in 1..Len(s) : i + Len(sep) - 1 <= Len(s) /\ SubSeq(s, i, i + Len(sep) - 1) = sep}

\* s.split(sep)[0]
FirstPiece(s, sep) ==
    IF PlacesOf(s, sep) = {} THEN s ELSE SubSeq(s, 1, Min(PlacesOf(s, sep)) - 1)

\* the outcome of a conversion: the value, or the exception raised
Value(n) == [raised |-> "", value |-> n]
ValueError == [raised |-> "ValueError", value |-> 0]

DigitValue(c) == CHOOSE n \in 0..9 : <<"0", "1", "2", "3", "4", "5", "6", "7", "8", "9">>[n + 1] = c

RECURSIVE Decimal(_)
Decimal(digits) ==
    IF digits = <<>> THEN 0
    ELSE 10 * Decimal(SubSeq(digits, 1, Len(digits) - 1)) + DigitValue(digits[Len(digits)])

\* int(s): blanks around, a sign, decimal digits; anything else raises
int(s) ==
    LET t == Strip(s)
        signed == t # <<>> /\ t[1] \in {"-", "+"}
        digits == IF signed THEN SubSeq(t, 2, Len(t)) ELSE t
    IN  IF digits = <<>> \/ \E i \in 1..Len(digits) : digits[i] \notin Digits
        THEN ValueError
        ELSE IF signed /\ t[1] = "-" THEN Value(0 - Decimal(digits)) ELSE Value(Decimal(digits))

\* _parse_timestamp (lines 574-585): any exception gives 0
parse_timestamp(timestamp_str) ==
    LET parts == Split(timestamp_str, ":")
        n == [k \in 1..Len(parts) |-> int(parts[k])]
    IN  IF Len(parts) = 3
        THEN IF ValueError \in {n[1], n[2], n[3]} THEN 0
             ELSE n[1].value * 3600 + n[2].value * 60 + n[3].value
        ELSE IF Len(parts) = 2
        THEN IF ValueError \in {n[1], n[2]} THEN 0
             ELSE n[1].value * 60 + n[2].value
        ELSE IF n[1] = ValueError THEN 0 ELSE n[1].value

\* line 285: the sort key of an entry
TimeKey(entry) == parse_timestamp(FirstPiece(entry, <<" ", "-", " ">>))

\* the entries left in the order of the response
SortByTime_Unsorted(entries) == entries

\* line 285: list.sort(key=...), a stable sort
RECURSIVE SortByTime(_)
SortByTime(entries) ==
    IF entries = <<>> THEN <<>>
    ELSE LET sorted == SortByTime(SubSeq(entries, 1, Len(entries) - 1))
             x == entries[Len(entries)]
             k == Cardinality({i \in 1..Len(sorted) : TimeKey(sorted[i]) <= TimeKey(x)})
         IN  SubSeq(sorted, 1, k) \o <<x>> \o SubSeq(sorted, k + 1, Len(sorted))

\* lines 279-282: the stripped lines that contain " - "
TimestampLines(lines) ==
    SelectSeq([k \in 1..Len(lines) |-> Strip(lines[k])],
              LAMBDA line : line # <<>> /\ PlacesOf(line, <<" ", "-", " ">>) # {})

\* line 287: "00:00:00 - Introduction"
Introduction ==
    <<"0", "0", ":", "0", "0", ":", "0", "0", " ", "-", " ",
      "I", "n", "t", "r", "o", "d", "u", "c", "t", "i", "o", "n">>

\* _parse_timestamps_response
parse_timestamps_response(response) ==
    LET timestamps == SortByTime(TimestampLines(Split(response, "\n")))
    IN  IF timestamps # <<>> THEN timestamps ELSE <<Introduction>>

\* lines a provider writes for chapters: HH:MM:SS, MM:SS, seconds, a
\* title first, no separator, blank, four fields, a letter in a field,
\* a negative number, a timestamp without a title
ChapterLines ==
    {<<"0", "0", ":", "0", "1", ":", "0", "5", " ", "-", " ", "A">>,
     <<"0", "1", ":", "1", "0", " ", "-", " ", "B", " ">>,
     <<" ", "7", "5", " ", "-", " ", "C">>,
     <<"D", " ", "-", " ", "0", "0", ":", "0", "9">>,
     <<"0", "0", ":", "3", "0", " ", "E">>,
     <<" ">>,
     <<"2", ":", "3", ":", "4", ":", "5", " ", "-", " ", "F">>,
     <<"0", "0", ":", "0", "x", ":", "5", "0", " ", "-", " ", "G">>,
     <<"-", "5", " ", "-", " ", "H">>,
     <<"0", "9", " ", "-", " ">>}

\* the provider's texts: up to MaxLines lines
RECURSIVE LineSeqs(_)
LineSeqs(n) ==
    IF n = 0 THEN {<<>>}
    ELSE LineSeqs(n - 1) \cup {Append(q, l) : q \in {r \in LineSeqs(n - 1) : Len(r) = n - 1},
                                             l \in ChapterLines}

ChapterResponses == {Join(q, <<"\n">>) : q \in LineSeqs(MaxLines)}

InitTimestamps ==
    /\ db = EmptyTables
    /\ tx = [s \in Sess |-> EmptyTx]
    /\ sess = [s \in Sess |-> IdleSession]
    /\ now = 0
    /\ calls = 0
    /\ startup = [runs |-> 0, err |-> ""]
    /\ hist = [ledger |-> {}, ops |-> <<>>, everActive |-> {}]
    /\ client = IdleClient
    /\ text \in {[pc |-> "response", response |-> r, content |-> <<>>] : r \in ChapterResponses}

GenerateChapterTimestamps ==
    /\ text.pc = "response"
    /\ text' = [text EXCEPT !.pc = "chapter_timestamps",
                            !.content = parse_timestamps_response(text.response)]
    /\ UNCHANGED <<store, client>>

SpecTimestamps == InitTimestamps /\ [][GenerateChapterTimestamps]_vars

\* how often x occurs in the sequence q
Count(q, x) == Cardinality({k \in 1..Len(q) : q[k] = x})

Separator == <<" ", "-", " ">>

\* the lines of the response
ResponseLines == Split(text.response, "\n")

\* the entries are in the order of their leading timestamps
TimeOrdered(entries) ==
    \A k \in 1..(Len(entries) - 1) : TimeKey(entries[k]) <= TimeKey(entries[k + 1])

\* C16: timestamp-list parsing never fails and returns a non-empty list
\* whose entries are exactly the input lines containing " - ", ordered so
\* that their leading timestamps are non-decreasing; when no line
\* qualifies the result is the single entry "00:00:00 - Introduction".
C16_TimestampsParsed ==
    text.pc = "chapter_timestamps" =>
        LET qualifying == {k \in 1..Len(ResponseLines) : PlacesOf(ResponseLines[k], Separator) # {}}
        IN  /\ text.content # <<>>
            /\ TimeOrdered(text.content)
            /\ IF qualifying = {}
               THEN text.content = <<Introduction>>
               ELSE /\ Len(text.content) = Cardinality(qualifying)
                    /\ \A k \in qualifying :
                          Count(text.content, Strip(ResponseLines[k]))
                              = Cardinality({j \in qualifying :
                                    Strip(ResponseLines[j]) = Strip(ResponseLines[k])})

\* C16, amended: the entries are the trimmed input lines that contain
\* " - " after trimming, so a line ending in " - " does not qualify.
C16_TrimmedTimestampsParsed ==
    text.pc = "chapter_timestamps" =>
        LET qualifying == {k \in 1..Len(ResponseLines) :
                              PlacesOf(Strip(ResponseLines[k]), Separator) # {}}
        IN  /\ text.content # <<>>
            /\ TimeOrdered(text.content)
            /\ IF qualifying = {}
               THEN text.content = <<Introduction>>
               ELSE /\ Len(text.content) = Cardinality(qualifying)
                    /\ \A k \in qualifying :
                          Count(text.content, Strip(ResponseLines[k]))
                              = Cardinality({j \in qualifying :
                                    Strip(ResponseLines[j]) = Strip(ResponseLines[k])})

C16_Witness ==
    /\ text.pc = "chapter_timestamps"
    /\ Len(ResponseLines) = 3
    /\ Len(text.content) = 3
    /\ TimeKey(Strip(ResponseLines[1])) > TimeKey(Strip(ResponseLines[2]))
    /\ TimeKey(Strip(ResponseLines[2])) > TimeKey(Strip(ResponseLines[3]))
    /\ text.content[1] = Strip(ResponseLines[3])

(***************************************************************************)
(* Keywords and hashtags (content_generator.py lines 156-173 and 523-541). *)
(***************************************************************************)
MaxChars == 500
LastCommaFloor == 400
MaxSlack == 2
MaxKeywords == 3

\* s.replace(c, '')
Remove(s, c) == SelectSeq(s, LAMBDA x : x # c)

\* lines 164-173: the keywords text of the provider's response
Keywords(response) ==
    LET keywords == RStrip(Strip(response), {"."})
        truncated == Prefix(keywords, MaxChars)
        last_comma == RFind(truncated, ",")
    IN  Strip(IF Len(keywords) > MaxChars
              THEN IF last_comma > LastCommaFloor
                   THEN Prefix(truncated, last_comma)
                   ELSE truncated
              ELSE keywords)

\* lines 528-530: the keywords without blanks and trailing dots
keyword_list(keywords) ==
    LET kept == SelectSeq(Split(keywords, ","), LAMBDA kw : Strip(kw) # <<>>)
    IN  [k \in 1..Len(kept) |-> RStrip(Remove(Strip(kept[k]), " "), {"."})]

\* line 531
JoinHashtags(list) == Join([k \in 1..Len(list) |-> <<"#">> \o list[k]], <<",", " ">>)

generate_hashtags_from_keywords_Uncut(keywords) ==
    IF keywords = <<>> THEN <<>> ELSE JoinHashtags(keyword_list(keywords))

generate_hashtags_from_keywords(keywords) ==
    IF keywords = <<>> THEN <<>>
    ELSE LET hashtags == JoinHashtags(keyword_list(keywords))
             truncated == Prefix(hashtags, MaxChars)
             last_comma == RFind(truncated, ",")
         IN  IF Len(hashtags) > MaxChars
             THEN IF last_comma > LastCommaFloor
                  THEN Prefix(truncated, last_comma)
                  ELSE truncated
             ELSE hashtags

\* the keywords the provider writes
KeywordTexts ==
    {<<"F", "i", "n", "a", "n", "c", "e">>,
     <<"D", "u", "b", "a", "i", " ">>,
     <<"s", "t", "a", "r", "t", " ", "u", "p", ".", ".", ".">>,
     <<".", ".", ".">>,
     <<"I", "n", "c", ".">>,
     <<" ">>,
     Repeat("k", 99),
     Repeat("k", 124)}

KeywordSeps == {<<",">>, <<",", " ">>}

KeywordTails == {<<>>, <<".", ".", ".">>, <<" ", "\n">>}

\* runs of two kinds of keywords
KeywordRuns ==
    {Join(Repeat(a, i) \o Repeat(b, j), sep) \o tail :
        a \in KeywordTexts, b \in KeywordTexts,
        i \in 0..MaxKeywords, j \in 0..MaxKeywords,
        sep \in {<<",", " ">>}, tail \in {<<>>, <<".", ".", ".">>}}

\* two long keywords whose comma lies about the floor of the cut
KeywordPairs ==
    {Repeat("k", a) \o sep \o Repeat("w", b) \o tail :
        a \in (LastCommaFloor - MaxSlack)..(LastCommaFloor + MaxSlack),
        b \in {0, MaxChars - LastCommaFloor - 3, MaxChars - LastCommaFloor + MaxSlack},
        sep \in KeywordSeps, tail \in KeywordTails}

KeywordResponses == KeywordRuns \cup KeywordPairs

InitKeywords ==
    /\ db = EmptyTables
    /\ tx = [s \in Sess |-> EmptyTx]
    /\ sess = [s \in Sess |-> IdleSession]
    /\ now = 0
    /\ calls = 0
    /\ startup = [runs |-> 0, err |-> ""]
    /\ hist = [ledger |-> {}, ops |-> <<>>, everActive |-> {}]
    /\ client = IdleClient
    /\ text \in {[pc |-> "response", response |-> r, keywords |-> <<>>, hashtags |-> <<>>] :
                    r \in KeywordResponses}

\* the eighth content type (lines 156-173)
GenerateKeywords ==
    /\ text.pc = "response"
    /\ text' = [text EXCEPT !.pc = "keywords", !.keywords = Keywords(text.response)]
    /\ UNCHANGED <<store, client>>

\* line 79
DeriveHashtags ==
    /\ text.pc = "keywords"
    /\ text' = [text EXCEPT !.pc = "hashtags",
                            !.hashtags = generate_hashtags_from_keywords(text.keywords)]
    /\ UNCHANGED <<store, client>>

NextKeywords ==
    \/ GenerateKeywords
    \/ DeriveHashtags

SpecKeywords == InitKeywords /\ [][NextKeywords]_vars

\* the comma-separated tokens of a hashtags text
Tokens(hashtags) ==
    LET pieces == Split(hashtags, ",")
    IN  {Strip(pieces[k]) : k \in 1..Len(pieces)}

\* C17: whatever keywords text the provider returned, the keywords string
\* has at most 500 characters, the hashtags string has at most 500
\* characters, and every comma-separated token of hashtags starts with '#'.
C17_KeywordsAndHashtagsBounded ==
    /\ text.pc \in {"keywords", "hashtags"} => Len(text.keywords) <= 500
    /\ text.pc = "hashtags" =>
          /\ Len(text.hashtags) <= 500
          /\ \/ text.hashtags = <<>>
             \/ \A token \in Tokens(text.hashtags) : token # <<>> /\ token[1] = "#"

C17_Witness ==
    /\ text.pc = "hashtags"
    /\ Len(Strip(text.response)) > 500
    /\ Len(text.keywords) < Len(text.response)
    /\ Len(generate_hashtags_from_keywords_Uncut(text.keywords)) > 500
    /\ Len(text.hashtags) > 400
    /\ Cardinality(Tokens(text.hashtags)) >= 2

(***************************************************************************)
(* Orchestrator properties: the order of the content types and the end of  *)
(* the request.                                                            *)
(***************************************************************************)
\* the requests that are running
Running == {s \in Sess : sess[s].op = "job" /\ sess[s].pc \notin {"idle", "closed"}}

\* the steps of generate_all_content_with_db after its loop, and of the
\* handler after it
AfterLoop == {"save_content", "save_guest", "update_status", "returned"}

\* the token usage the request of s has recorded
Recorded(s) == Cardinality(tx[s].ins.token_usage)

\* C18: a job takes the eight content types one at a time in their order,
\* the provider call of a type starts only after the token usage of the
\* type before it has been recorded, and hashtags are derived (before
\* save_generated_content) only after the keywords step has completed and
\* without a provider call, so that a successful job has made exactly
\* eight successful completions.
C18_EightTypesInOrder ==
    /\ [](\A s \in Running :
            /\ sess[s].pc \in AfterLoop =>
                  /\ sess[s].ct = 8
                  /\ ContentTypes[sess[s].ct] = "keywords"
                  /\ Recorded(s) = 8
            /\ sess[s].pc \in {"save_token", "read_summary", "write_summary"} =>
                  sess[s].res # NoRow)
    /\ [][\A s \in Sess :
            s \in Running =>
                \* one type at a time, in order, each after the ledger
                \* has the usage of the one before
                /\ sess'[s].pc # "closed" /\ sess'[s].ct # sess[s].ct =>
                      /\ sess'[s].ct = sess[s].ct + 1
                      /\ sess[s].ct = 0 \/ sess[s].pc = "write_summary"
                      /\ Cardinality(tx'[s].ins.token_usage) = sess[s].ct
                \* the provider is called for the type in turn only
                /\ sess[s].pc = "call" /\ sess'[s].pc # "call" =>
                      /\ Recorded(s) = sess[s].ct - 1
                      /\ sess'[s].pc # "closed" =>
                            sess'[s].res # NoRow /\ sess'[s].ct = sess[s].ct
                \* a completion comes from a provider call only
                /\ sess'[s].res # NoRow /\ sess[s].res = NoRow => sess[s].pc = "call"
                \* hashtags follow the keywords step and need no call
                /\ sess'[s].pc = "save_content" /\ sess[s].pc # "save_content" =>
                      /\ sess[s].pc = "write_summary"
                      /\ ContentTypes[sess[s].ct] = "keywords"
                      /\ Cardinality(tx'[s].ins.token_usage) = 8
                /\ sess[s].pc \in AfterLoop /\ sess'[s].pc # "closed" =>
                      sess'[s].res = sess[s].res]_vars

C18_Witness ==
    \E s \in Running :
        /\ sess[s].pc = "returned"
        /\ sess[s].ct = 8
        /\ Recorded(s) = 8
        /\ Cardinality(tx[s].ins.generated_content) = 1

\* the steps of one content type (_generate_content_with_db and the
\* save_token_usage it awaits)
TypeSteps == {"lookup", "save_prompt", "call", "save_token", "read_summary", "write_summary"}

\* the bundles of job j among the rows
BundlesOf(rows, j) == {r \in rows : r.id[1] = j}

\* C19: when the generation of a content type raises, no later content
\* type is attempted, no bundle is stored for the job (neither then nor
\* later), and the caller gets one failure and no bundle.
C19_FailureAbortsJob ==
    /\ [](\A s \in Running :
            /\ BundlesOf(db.generated_content, sess[s].job) = {}
            /\ sess[s].job <= calls)
    /\ [][\A s \in Sess :
            /\ s \in Running /\ sess[s].pc \in TypeSteps /\ sess'[s].pc = "closed" =>
                  \* the request ends with the failure,
                  /\ sess'[s].err # ""
                  \* with no step of a later type,
                  /\ sess'[s].ct = 0
                  \* and nothing of the job is stored
                  /\ tx'[s] = EmptyTx
                  /\ db' = db
                  /\ BundlesOf(db'.generated_content, sess[s].job) = {}
                  /\ \A r \in db'.generated_content : r.session_id # sess[s].sid
            \* an ended request takes no further step
            /\ sess[s].pc = "closed" /\ sess'[s] # sess[s] =>
                  /\ sess'[s].pc = "create_session"
                  /\ sess'[s].job = calls + 1
                  /\ calls' = calls + 1
            \* a bundle is stored by the commit of its own request only
            /\ \A r \in db'.generated_content \ db.generated_content :
                  \E t \in Running :
                      /\ sess[t].pc = "returned"
                      /\ sess'[t].pc = "closed" /\ sess'[t].err = ""
                      /\ r.id[1] = sess[t].job]_vars

C19_Witness ==
    /\ \E s \in Sess :
          /\ sess[s].op = "job" /\ sess[s].pc = "closed"
          /\ sess[s].err = "OpenAIError"
    /\ \E r \in db.prompt_usage : r.id[1] = 1
    /\ db.generated_content # {}
    /\ calls = 2

\* the job records of session_id sid among the rows
JobRecords(rows, sid) == {r \in rows : r.session_id = sid}

\* C20: a job is created with status processing; when its request ends,
\* its record is in the store with status completed (after the eight
\* content types and the bundle write) or, after a failure, with status
\* error; no record is left in processing.
C20_JobEndsCompletedOrError ==
    /\ [](\A r \in db.sessions : r.status \in {"completed", "error"})
    /\ [][\A s \in Sess :
            /\ s \in Running /\ sess[s].pc = "create_session"
                         /\ sess'[s].pc \notin {"create_session", "closed"} =>
                  \E r \in JobRecords(tx'[s].ins.sessions, sess[s].sid) : r.status = "processing"
            /\ s \in Running /\ sess[s].pc # "create_session" /\ sess'[s].pc = "closed" =>
                  /\ JobRecords(db'.sessions, sess[s].sid) # {}
                  /\ \A r \in JobRecords(db'.sessions, sess[s].sid) :
                        IF sess'[s].err = ""
                        THEN /\ r.status = "completed"
                             /\ Recorded(s) = 8
                             /\ tx[s].ins.generated_content # {}
                        ELSE r.status = "error"]_vars

(***************************************************************************)
(* Orchestrator properties: templates, rendering and what is recorded.     *)
(***************************************************************************)
\* the content type the request of s is at has no active template
NoTemplate(s) == ActiveRows(TemplateView(s), ContentTypes[sess[s].ct]) = {}

MaxOver == 1

Literal(name) == [kind |-> "text", name |-> name, n |-> 0]

\* "{field}"
Placeholder(field) == [kind |-> "placeholder", name |-> field, n |-> 0]

\* a str of n characters
Chars(n) == [kind |-> "chars", name |-> "", n |-> n]

\* str() of a list of n segment dicts
SegmentList(n) == [kind |-> "list", name |-> "", n |-> n]

\* str() of a number of seconds
Seconds(n) == [kind |-> "seconds", name |-> "", n |-> n]

\* the placeholders of the texts of DEFAULT_PROMPTS (seed.py lines 9-92)
SeedFields ==
    [youtube_summary |-> <<"guest_name", "guest_title", "guest_company", "transcript">>,
     blog_post |-> <<"guest_name", "guest_title", "guest_company", "guest_linkedin",
                     "transcript">>,
     clickbait_titles |-> <<"guest_name", "guest_company", "transcript">>,
     two_line_summary |-> <<"transcript">>,
     quotes |-> <<"transcript_with_timecodes">>,
     chapter_timestamps |-> <<"video_duration", "transcript_with_timecodes">>,
     linkedin_post |-> <<"guest_name", "guest_title", "guest_company", "guest_linkedin",
                         "transcript">>,
     keywords |-> <<"guest_name", "guest_title", "guest_company", "transcript">>]

\* a template text with the placeholders fields
TemplateText(name, fields) ==
    <<Literal(name)>> \o [i \in 1..Len(fields) |-> Placeholder(fields[i])]

\* the keyword arguments the generator of each content type passes on
\* (content_generator.py lines 94-162)
GeneratorFields ==
    [youtube_summary |-> {"transcript", "guest_name", "guest_title", "guest_company"},
     blog_post |-> {"transcript", "guest_name", "guest_title", "guest_company",
                    "guest_linkedin"},
     clickbait_titles |-> {"transcript", "guest_name", "guest_company"},
     two_line_summary |-> {"transcript"},
     quotes |-> {"transcript_with_timecodes"},
     chapter_timestamps |-> {"transcript_with_timecodes", "video_duration"},
     linkedin_post |-> {"transcript", "guest_name", "guest_title", "guest_company",
                        "guest_linkedin"},
     keywords |-> {"transcript", "guest_name", "guest_title", "guest_company"}]

\* lines 192-198: format_kwargs, and the three fields that are added when
\* they are not empty (video_duration: when it is not None)
fmt_kwargs(prompt_name, request) ==
    LET given == GeneratorFields[prompt_name]
        names == {f \in given :
                     /\ f = "transcript" => request.transcript > 0
                     /\ f = "transcript_with_timecodes" => request.segments > 0}
    IN  [f \in names |->
            CASE f = "transcript" -> Chars(request.transcript)
              [] f = "transcript_with_timecodes" -> SegmentList(request.segments)
              [] f = "video_duration" -> Seconds(request.video_duration)
              [] OTHER -> Literal(f)]

\* template.format(**kwargs)
format(template, kwargs) ==
    IF \E i \in 1..Len(template) :
           template[i].kind = "placeholder" /\ template[i].name \notin DOMAIN kwargs
    THEN [raised |-> "KeyError", text |-> <<>>]
    ELSE [raised |-> "",
          text |-> [i \in 1..Len(template) |->
                      IF template[i].kind = "placeholder"
                      THEN kwargs[template[i].name] ELSE template[i]]]

\* lines 200-205: the rendered prompt, or the template as it is when
\* format raises KeyError
prompt_text(template, prompt_name, request) ==
    LET rendered == format(template, fmt_kwargs(prompt_name, request))
    IN  IF rendered.raised = "KeyError" THEN template ELSE rendered.text

\* prompts_service.py lines 90-98: the characters of the transcript
\* format_prompt keeps for a content type (0: all)
TranscriptBudget ==
    [youtube_summary |-> 8000, blog_post |-> 12000, clickbait_titles |-> 6000,
     two_line_summary |-> 6000, quotes |-> 0, chapter_timestamps |-> 0,
     linkedin_post |-> 0, keywords |-> 0]

Around(n) == {k \in (n - MaxOver)..(n + MaxOver) : k >= 0}

\* the requests: transcripts about the budgets, segment lists about the
\* caps of format_prompt (lines 106 and 111), durations
Requests ==
    [transcript : UNION {Around(TranscriptBudget[ContentTypes[i]]) : i \in 1..Len(ContentTypes)},
     segments : Around(0) \cup Around(200) \cup Around(300),
     video_duration : {0, 59, 3725}]

\* the active template of a content type: the seeded one, or a version
\* written later that names one more field
ActiveTemplates(prompt_name) ==
    {TemplateText(prompt_name, SeedFields[prompt_name]),
     TemplateText(prompt_name, SeedFields[prompt_name] \o <<"guest_linkedin">>)}

InitRender ==
    /\ db = EmptyTables
    /\ tx = [s \in Sess |-> EmptyTx]
    /\ sess = [s \in Sess |-> IdleSession]
    /\ now = 0
    /\ calls = 0
    /\ startup = [runs |-> 0, err |-> ""]
    /\ hist = [ledger |-> {}, ops |-> <<>>, everActive |-> {}]
    /\ client = IdleClient
    /\ \E i \in 1..Len(ContentTypes) :
          text \in {[pc |-> "render", prompt_name |-> ContentTypes[i], template |-> t,
                     request |-> r, prompt |-> <<>>, recorded |-> <<>>, sent |-> <<>>] :
                       r \in Requests, t \in ActiveTemplates(ContentTypes[i])}

\* lines 191-207
RenderPrompt ==
    /\ text.pc = "render"
    /\ text' = [text EXCEPT !.pc = "save_prompt",
                            !.prompt = prompt_text(text.template, text.prompt_name,
                                                   text.request)]
    /\ UNCHANGED <<store, client>>

\* line 210: the prompt is recorded as prompt usage
RecordPrompt ==
    /\ text.pc = "save_prompt"
    /\ text' = [text EXCEPT !.pc = "call", !.recorded = text.prompt]
    /\ UNCHANGED <<store, client>>

\* line 213: the prompt goes to the provider
SendPrompt ==
    /\ text.pc = "call"
    /\ text' = [text EXCEPT !.pc = "sent", !.sent = text.prompt]
    /\ UNCHANGED <<store, client>>

NextRender ==
    \/ RenderPrompt
    \/ RecordPrompt
    \/ SendPrompt

SpecRender == InitRender /\ [][NextRender]_vars

\* the fields the template names that the request leaves without a value
MissingFields ==
    {text.template[i].name : i \in {j \in 1..Len(text.template) :
        /\ text.template[j].kind = "placeholder"
        /\ text.template[j].name \notin DOMAIN fmt_kwargs(text.prompt_name, text.request)}}

Unsubstituted(prompt) == \E i \in 1..Len(prompt) : prompt[i].kind = "placeholder"

\* C22: when the active template names a placeholder without a supplied
\* value (an empty transcript is left out), rendering fails, no provider
\* call is made for the content type, and no text with unsubstituted
\* placeholders is recorded as prompt usage or sent to the provider.
C22_MissingFieldFails ==
    /\ MissingFields # {} => text.pc \in {"render", "raised"}
    /\ ~Unsubstituted(text.recorded)
    /\ ~Unsubstituted(text.sent)

\* C24: the transcript text in the prompt is no longer than the budget of
\* the content type, and neither the raw segment list nor the raw number
\* of seconds is in the prompt.
C24_FieldsCappedAndFormatted ==
    \A i \in 1..Len(text.sent) :
        /\ text.sent[i].kind = "chars" /\ TranscriptBudget[text.prompt_name] > 0 =>
              text.sent[i].n <= TranscriptBudget[text.prompt_name]
        /\ text.sent[i].kind \notin {"list", "seconds"}

\* C23: every job id has at most one stored bundle, and a request for a
\* job id that has a stored bundle is accepted (it is not refused at its
\* first step), so that its bundle can take the place of the stored one.
C23_RegenerationReplacesBundle ==
    /\ [](\A r1, r2 \in db.generated_content :
            r1.session_id = r2.session_id => r1 = r2)
    /\ [][\A s \in Sess :
            /\ s \in Running /\ sess[s].pc = "create_session" /\ sess'[s] # sess[s]
            /\ \E r \in db.generated_content : r.session_id = sess[s].sid
            => sess'[s].pc # "closed"]_vars

(***************************************************************************)
(* Parser properties.                                                      *)
(***************************************************************************)
\* a line without its leading number followed by "." or ")"
Unnumbered(line) ==
    LET digits == {k \in 1..Len(line) : \A j \in 1..k : line[j] \in Digits}
        k == IF digits = {} THEN 0 ELSE Max(digits)
    IN  IF k > 0 /\ k < Len(line) /\ line[k + 1] \in {".", ")"}
        THEN Strip(SubSeq(line, k + 2, Len(line)))
        ELSE line

\* a line without its bullet marker
Unbulleted(line) ==
    IF line # <<>> /\ line[1] \in {"-", Bullet}
    THEN Strip(SubSeq(line, 2, Len(line)))
    ELSE line

\* the lines with numbering and bullet markers removed, blank ones dropped
RECURSIVE CleanedLines(_)
CleanedLines(lines) ==
    IF lines = <<>> THEN <<>>
    ELSE LET item == Unbulleted(Unnumbered(Strip(lines[Len(lines)])))
         IN  CleanedLines(SubSeq(lines, 1, Len(lines) - 1))
                 \o (IF item = <<>> THEN <<>> ELSE <<item>>)

\* C25: for every text, target count N and default item, list parsing
\* returns exactly N items: the non-blank lines without their leading
\* "N." / "N)" numbering and bullet markers, in order, cut to the first N
\* and followed by copies of the default item up to N.
C25_ListParsedToTargetCount ==
    text.pc = "list" =>
        LET items == CleanedLines(Split(text.response, "\n"))
            N == text.target_count
        IN  /\ Len(text.content) = N
            /\ text.content =
                  Prefix(items \o Repeat(text.default_item,
                                         IF Len(items) < N THEN N - Len(items) ELSE 0), N)

\* a keyword without the ellipsis at its end
DropEllipsis(kw) ==
    IF Len(kw) >= 3 /\ SubSeq(kw, Len(kw) - 2, Len(kw)) = <<".", ".", ".">>
    THEN SubSeq(kw, 1, Len(kw) - 3)
    ELSE kw

\* one '#' token for every non-blank keyword, in order, joined by ", "
TokenPerKeyword(keywords) ==
    LET kept == SelectSeq(Split(keywords, ","), LAMBDA kw : Strip(kw) # <<>>)
    IN  Join([k \in 1..Len(kept) |->
                 <<"#">> \o DropEllipsis(Remove(Strip(kept[k]), " "))], <<",", " ">>)

\* C26: the hashtags are a function of the keywords string: one
\* '#'-prefixed token per non-blank comma-separated keyword, in order,
\* without the spaces inside the keyword and without a trailing ellipsis,
\* joined by ", " (stated for results of at most 500 characters).
C26_HashtagPerKeyword ==
    text.pc = "hashtags" /\ Len(TokenPerKeyword(text.keywords)) <= 500 =>
        text.hashtags = TokenPerKeyword(text.keywords)

(***************************************************************************)
(* The usage rows of one provider call: _generate_content_with_db records  *)
(* the prompt before the call and the tokens, model and cost after it.     *)
(***************************************************************************)
\* utils/cost_calculator.py PRICING, in 1e-8 USD per token
PRICING ==
    [m \in {"gpt-4-turbo", "gpt-4", "gpt-3.5-turbo"} |->
        CASE m = "gpt-4-turbo" -> [prompt |-> 1000, completion |-> 3000]
          [] m = "gpt-4" -> [prompt |-> 3000, completion |-> 6000]
          [] m = "gpt-3.5-turbo" -> [prompt |-> 50, completion |-> 150]]

DEFAULT_MODEL == "gpt-4-turbo"

\* get_model_pricing: a model outside the table is priced as the default
get_model_pricing(model) ==
    IF model \notin DOMAIN PRICING THEN PRICING[DEFAULT_MODEL] ELSE PRICING[model]

\* round(x, 6): x in 1e-8 USD, the result in 1e-6 USD, halves to even
Round6(x) ==
    LET q == x \div 100
        r == x % 100
    IN  IF r > 50 \/ (r = 50 /\ q % 2 = 1) THEN q + 1 ELSE q

\* calculate_token_cost
calculate_token_cost(prompt_tokens, completion_tokens, model) ==
    LET rates == get_model_pricing(model)
    IN  Round6(prompt_tokens * rates.prompt + completion_tokens * rates.completion)

\* the counts a provider response reports
UsageCounts == 1..MaxTokens

\* lines 209-213: the prompt is recorded, then the client is called
CallWithUsage(prompt, model) ==
    /\ client.pc \in {"idle", "recorded", "raised"}
    /\ text' = [pc |-> "usage", prompt_usage |-> [prompt_text_used |-> prompt],
                token_usage |-> NoRow]
    /\ client' = [pc |-> "attempt", model |-> model, prompt |-> prompt,
                  models |-> models_to_try(model), i |-> 1, attempt |-> 0,
                  user_content |-> prompt, log |-> <<>>, last_error |-> "none",
                  result |-> NoRow, error |-> NoRow]
    /\ UNCHANGED store

\* lines 215-233: the tokens of the response, the model and the cost are
\* recorded after the call returned
RecordTokens(prompt_tokens, completion_tokens) ==
    /\ client.pc = "returned"
    /\ text.pc = "usage"
    /\ text' = [text EXCEPT !.token_usage =
                   [prompt_tokens |-> prompt_tokens,
                    completion_tokens |-> completion_tokens,
                    model |-> client.model,
                    cost_usd |-> calculate_token_cost(prompt_tokens, completion_tokens,
                                                      client.model)]]
    /\ client' = [client EXCEPT !.pc = "recorded"]
    /\ UNCHANGED store

\* the provider's side of the call
UsageReturns == text.pc = "usage" /\ AttemptReturns

UsageFails(error_msg) == text.pc = "usage" /\ AttemptFails(error_msg)

NextUsage ==
    \/ \E prompt \in Prompts, model \in ConfiguredModels : CallWithUsage(prompt, model)
    \/ UsageReturns
    \/ \E error_msg \in Errors : UsageFails(error_msg)
    \/ \E prompt_tokens \in UsageCounts, completion_tokens \in UsageCounts :
          RecordTokens(prompt_tokens, completion_tokens)

SpecUsage == Init /\ [][NextUsage]_vars

\* C27: the model of a TokenUsage row is the candidate that returned the
\* completion, and its cost is computed with that model's rates, also when
\* a fallback model served the completion.
C27_RowNamesReturningModel ==
    client.pc = "recorded" =>
        /\ text.token_usage.model = client.result.model
        /\ text.token_usage.cost_usd =
              calculate_token_cost(text.token_usage.prompt_tokens,
                                   text.token_usage.completion_tokens,
                                   client.result.model)

\* C28: the text of the PromptUsage row of a call that succeeded is the
\* user text of the attempt that returned, also after the client cut the
\* prompt; the row is not modified after it was written.
C28_RowHoldsReturnedText ==
    /\ [](client.pc \in {"returned", "recorded"} =>
             text.prompt_usage.prompt_text_used = client.result.content)
    /\ [][text.pc = "usage" /\ ~(client.pc # "attempt" /\ client'.pc = "attempt") =>
             text'.prompt_usage = text.prompt_usage]_vars

(***************************************************************************)
(* The token totals of one job: generate_all_content_with_db adds up the   *)
(* counts of the eight calls, the ledger keeps one TokenUsage row per call *)
(* and get_usage_summary_for_session adds up the rows.                     *)
(***************************************************************************)
\* openai_service.py lines 108-113: the counts of response.usage, three
\* fields the provider fills in, or zeros when the response has no usage
UsageReports ==
    {[prompt_tokens |-> 0, completion_tokens |-> 0, total_tokens |-> 0]} \cup
    {[prompt_tokens |-> 1, completion_tokens |-> 1, total_tokens |-> t] : t \in {2, 3}}

InitTotals ==
    /\ db = EmptyTables
    /\ tx = [s \in Sess |-> EmptyTx]
    /\ sess = [s \in Sess |-> IdleSession]
    /\ now = 0
    /\ calls = 0
    /\ startup = [runs |-> 0, err |-> ""]
    /\ hist = [ledger |-> {}, ops |-> <<>>, everActive |-> {}]
    /\ client = IdleClient
    /\ text = [pc |-> "job", rows |-> {}, total_prompt_tokens |-> 0,
               total_completion_tokens |-> 0, token_usage |-> NoRow, summary |-> NoRow]

\* content_generator.py lines 215-233 and 67-72: one call returns, its
\* counts are recorded as a TokenUsage row and added to the job's totals
TypeReturns(usage) ==
    /\ text.pc = "job"
    /\ Cardinality(text.rows) < Len(ContentTypes)
    /\ text' = [text EXCEPT
                   !.rows = @ \cup {[id |-> Cardinality(text.rows) + 1,
                                     prompt_tokens |-> usage.prompt_tokens,
                                     completion_tokens |-> usage.completion_tokens,
                                     total_tokens |-> usage.total_tokens]},
                   !.total_prompt_tokens = @ + usage.prompt_tokens,
                   !.total_completion_tokens = @ + usage.completion_tokens]
    /\ UNCHANGED <<store, client>>

\* content_generator.py lines 84-92: the totals returned to the caller
JobReturns ==
    /\ text.pc = "job"
    /\ Cardinality(text.rows) = Len(ContentTypes)
    /\ text' = [text EXCEPT
                   !.pc = "returned",
                   !.token_usage =
                       [prompt_tokens |-> text.total_prompt_tokens,
                        completion_tokens |-> text.total_completion_tokens,
                        total_tokens |-> text.total_prompt_tokens
                                            + text.total_completion_tokens]]
    /\ UNCHANGED <<store, client>>

\* repository.py lines 302-335
get_usage_summary_for_session ==
    /\ text.pc = "returned"
    /\ text' = [text EXCEPT !.pc = "summed",
                            !.summary = [total_tokens |-> SumTokens(text.rows),
                                         request_count |-> Cardinality(text.rows)]]
    /\ UNCHANGED <<store, client>>

NextTotals ==
    \/ \E usage \in UsageReports : TypeReturns(usage)
    \/ JobReturns
    \/ get_usage_summary_for_session

SpecTotals == InitTotals /\ [][NextTotals]_vars

\* C29: the total_tokens returned to the caller of a completed job is the
\* sum of total_tokens over the job's TokenUsage rows, which is the total
\* that the usage summary of the job reports, whatever counts the provider
\* reported for the calls.
C29_ReturnedTotalIsLedgerTotal ==
    text.pc = "summed" =>
        /\ text.summary.total_tokens = SumTokens(text.rows)
        /\ text.token_usage.total_tokens = text.summary.total_tokens

(***************************************************************************)
(* Orchestrator properties: a request that fails before its commit.        *)
(***************************************************************************)
\* the step ends the request of s with a failure
FailsAt(s) == s \in Running /\ sess'[s].pc = "closed" /\ sess'[s].err # ""

\* C30: a generate-content request that fails at a step before its commit
\* leaves none of its writes: the step that ends it changes no table (no
\* Session, PromptUsage or TokenUsage row, no DailyUsageSummary change)
\* and drops what the request had written, also when provider calls of
\* the request had succeeded; until its commit none of its rows is in the
\* store.
C30_FailedRequestLeavesNoWrites ==
    /\ [](\A s \in Running :
            /\ \A r \in db.prompt_usage \cup db.token_usage \cup db.generated_content :
                  r.id[1] # sess[s].job
            /\ sess[s].pc # "create_session" =>
                  \A r \in db.sessions \cup db.guests : r.session_id # sess[s].sid)
    /\ [][\A s \in Sess :
            FailsAt(s) => db' = db /\ tx'[s] = EmptyTx]_vars

C30_Witness ==
    /\ \E s \in Sess :
          /\ sess[s].op = "job" /\ sess[s].pc = "closed"
          /\ sess[s].err = "IntegrityError"
          /\ tx[s] = EmptyTx
    /\ Cardinality(db.sessions) = 1
    /\ Cardinality(db.token_usage) = Len(ContentTypes)
    /\ calls = 2

====
